---- MODULE Spec2Model ----
(***************************************************************************)
(* PZDiscordEventPublisher: the RCON -> Discord bridge.                    *)
(*                                                                         *)
(* The sources hold three revisions of the same program:                   *)
(*   "notice"   src/unnamed/part_000   (plain relay, error notice posted)  *)
(*   "relay"    src/index.ts 1-143     (plain relay, cooldown on fault)    *)
(*   "presence" src/index.ts 145-357   (relay + presence/topic, chunking)  *)
(* The revision is fixed at Init; every handler below is translated from   *)
(* the revision's code.  One action is one run-to-completion step of the   *)
(* JavaScript event loop: the code between two awaits.                     *)
(***************************************************************************)
EXTENDS Integers, Sequences, FiniteSets, TLC

(* ------------------------------ bounds -------------------------------- *)
\* pollOnce invocations per run (the first one plus the timer-started ones)
MaxCycles == 3
\* longest string handed to splitMessage in SplitSpec
MaxStrLen == 4
\* largest maxLen handed to splitMessage in SplitSpec
MaxChunk == 3
\* lines of a players response (ParseSpec)
MaxLines == 3

(* ------------------------- program constants -------------------------- *)
\* splitMessage's default maxLen
DEFAULT_MAX_LEN == 1900
\* sleep(1000 * 60) in pollOnce's catch
COOLDOWN_MS == 60000
\* Number(POLL_INTERVAL_MS ?? 10000)
DEFAULT_POLL_MS == 10000
\* let lastCount = -1
NEVER_SET == -1

Variants == {"notice", "relay", "presence"}
\* POLL_INTERVAL_MS of the environment: the default, and one above the cooldown
PollChoices == {DEFAULT_POLL_MS, COOLDOWN_MS + DEFAULT_POLL_MS}

Cycles == 1..MaxCycles
NULL == "null"

(* ------------------------------ strings ------------------------------- *)
\* A string is the sequence of its runs: [ch |-> character, n |-> repetitions >= 1],
\* neighbouring runs holding different characters.  "aaab" is <<[a,3],[b,1]>>.
WS == {" ", "\n"}

Min(a, b) == IF a < b THEN a ELSE b
Max(a, b) == IF a > b THEN a ELSE b

\* s followed by n times ch
AddRun(s, ch, n) ==
    IF n = 0 THEN s
    ELSE IF s # <<>> /\ s[Len(s)].ch = ch
    THEN [s EXCEPT ![Len(s)].n = @ + n]
    ELSE Append(s, [ch |-> ch, n |-> n])

RECURSIVE StrCat(_, _)
\* s + t
StrCat(s, t) == IF t = <<>> THEN s ELSE StrCat(AddRun(s, t[1].ch, t[1].n), Tail(t))

RECURSIVE Str(_)
\* the string of a sequence of characters
Str(chars) ==
    IF chars = <<>> THEN <<>>
    ELSE StrCat(<<[ch |-> chars[1], n |-> 1]>>, Str(Tail(chars)))

\* n times ch
Rep(ch, n) == AddRun(<<>>, ch, n)

RECURSIVE length(_)
\* String.prototype.length
length(s) == IF s = <<>> THEN 0 ELSE s[1].n + length(Tail(s))

RECURSIVE slice(_, _, _)
\* String.prototype.slice(start, end) for 0 <= start <= end <= length
slice(s, start, end) ==
    IF s = <<>> \/ end <= 0 THEN <<>>
    ELSE LET lo == Max(start, 0)
             hi == Min(end, s[1].n)
             rest == slice(Tail(s), start - s[1].n, end - s[1].n)
         IN  IF hi > lo THEN <<[ch |-> s[1].ch, n |-> hi - lo]>> \o rest ELSE rest

RECURSIVE trimStart(_)
trimStart(s) == IF s # <<>> /\ s[1].ch \in WS THEN trimStart(Tail(s)) ELSE s

RECURSIVE trimEnd(_)
trimEnd(s) ==
    IF s # <<>> /\ s[Len(s)].ch \in WS THEN trimEnd(SubSeq(s, 1, Len(s) - 1)) ELSE s

\* String.prototype.trim()
trim(s) == trimEnd(trimStart(s))

RECURSIVE stripWs(_)
\* response.replace(/\s+/g, "")
stripWs(s) ==
    IF s = <<>> THEN <<>>
    ELSE IF s[1].ch \in WS THEN stripWs(Tail(s))
    ELSE StrCat(<<s[1]>>, stripWs(Tail(s)))

RECURSIVE splitLoop(_, _, _, _)
\* the while loop of splitMessage, entered with the chunks pushed so far and start
splitLoop(content, maxLen, chunks, start) ==
    IF start < length(content)
    THEN LET end == Min(start + maxLen, length(content))
         IN  splitLoop(content, maxLen, Append(chunks, slice(content, start, end)), end)
    ELSE chunks

\* faulty variant: the loop runs while start + maxLen <= content.length
splitMessageDropsRemainder(content, maxLen) ==
    splitLoop(slice(content, 0, (length(content) \div maxLen) * maxLen), maxLen, <<>>, 0)

splitMessage(content, maxLen) == splitLoop(content, maxLen, <<>>, 0)

RECURSIVE join(_)
\* chunks.join("")
join(chunks) == IF chunks = <<>> THEN <<>> ELSE StrCat(chunks[1], join(Tail(chunks)))

(* ------------------------- the environment ---------------------------- *)
\* err.toString() of the faults of the RCON client and of discord.js
ERR_CLOSED == "Error: Connection closed"
ERR_RESET == "Error: read ECONNRESET"
ERR_DISCORD == "DiscordAPIError[50013]: Missing Permissions"
RconErrs == {ERR_CLOSED, ERR_RESET}
DiscordErrs == {ERR_DISCORD}

\* String.prototype.toLowerCase() on the fault texts
toLowerCase(e) ==
    CASE e = ERR_CLOSED -> "error: connection closed"
      [] e = ERR_RESET -> "error: read econnreset"
      [] e = ERR_DISCORD -> "discordapierror[50013]: missing permissions"

\* err.toString().toLowerCase() == "error: connection closed"
isConnectionClosed(e) == toLowerCase(e) = "error: connection closed"

\* what the primary command may answer
EmptyResp == <<>>
BlankResp == Str(<<" ", "\n", " ">>)
ShortResp == Str(<<" ", "a", "b", "\n">>)
LongResp == StrCat(StrCat(Str(<<"\n">>), Rep("a", DEFAULT_MAX_LEN)), Str(<<"b", " ">>))
Responses == {EmptyResp, BlankResp, ShortResp, LongResp}

(* ------------------------- parsePlayerCount --------------------------- *)
\* The players response is read character by character: here a text is the plain
\* sequence of its characters.
SPACES == {" ", "\t", "\n", "\r"}
DIGITS == <<"0", "1", "2", "3", "4", "5", "6", "7", "8", "9">>

\* \s and \d of the regular expressions
isSpace(ch) == ch \in SPACES
isDigit(ch) == \E d \in 1..Len(DIGITS) : DIGITS[d] = ch
digitValue(ch) == (CHOOSE d \in 1..Len(DIGITS) : DIGITS[d] = ch) - 1

\* toLowerCase / the i flag, on the letters the texts use
lowerChar(ch) ==
    CASE ch = "P" -> "p" [] ch = "L" -> "l" [] ch = "A" -> "a" [] ch = "Y" -> "y"
      [] ch = "E" -> "e" [] ch = "R" -> "r" [] ch = "S" -> "s" [] ch = "C" -> "c"
      [] ch = "O" -> "o" [] ch = "N" -> "n" [] ch = "T" -> "t" [] ch = "D" -> "d"
      [] OTHER -> ch

word_player == <<"p", "l", "a", "y", "e", "r">>
word_connected == <<"c", "o", "n", "n", "e", "c", "t", "e", "d">>

\* the literal word w, in any letter case, stands at position i of text
wordAt(text, i, w) ==
    /\ i + Len(w) - 1 <= Len(text)
    /\ \A k \in 1..Len(w) : lowerChar(text[i + k - 1]) = w[k]

RECURSIVE skipSpaces(_, _)
\* the position after the longest run of \s from i
skipSpaces(text, i) ==
    IF i <= Len(text) /\ isSpace(text[i]) THEN skipSpaces(text, i + 1) ELSE i

RECURSIVE skipDigits(_, _)
\* the position after the longest run of \d from i
skipDigits(text, i) ==
    IF i <= Len(text) /\ isDigit(text[i]) THEN skipDigits(text, i + 1) ELSE i

RECURSIVE Number(_)
\* Number(m[1]) for a group of decimal digits
Number(digits) ==
    IF digits = <<>> THEN 0
    ELSE 10 * Number(SubSeq(digits, 1, Len(digits) - 1)) + digitValue(digits[Len(digits)])

NO_MATCH == <<>>

\* /Players?\s+connected\s*\((\d+)\)/i tried at position i: <<group 1>> or NO_MATCH
matchAt(text, i) ==
    IF ~wordAt(text, i, word_player) THEN NO_MATCH
    ELSE LET p1 == i + Len(word_player)
             p2 == IF p1 <= Len(text) /\ lowerChar(text[p1]) = "s" THEN p1 + 1 ELSE p1
             p3 == skipSpaces(text, p2)
             p4 == p3 + Len(word_connected)
             p5 == skipSpaces(text, p4)
             p6 == p5 + 1
             p7 == skipDigits(text, p6)
         IN  IF /\ p3 > p2
                /\ wordAt(text, p3, word_connected)
                /\ p5 <= Len(text) /\ text[p5] = "("
                /\ p7 > p6
                /\ p7 <= Len(text) /\ text[p7] = ")"
             THEN <<SubSeq(text, p6, p7 - 1)>>
             ELSE NO_MATCH

\* text.match(...): the leftmost match
match(text) ==
    LET hits == {i \in 1..Len(text) : matchAt(text, i) # NO_MATCH}
    IN  IF hits = {} THEN NO_MATCH
        ELSE matchAt(text, CHOOSE i \in hits : \A j \in hits : i <= j)

RECURSIVE splitLines(_, _)
\* text.split(/\r?\n/), entered with the line read so far
splitLines(text, line) ==
    IF text = <<>> THEN <<line>>
    ELSE IF text[1] = "\n" THEN <<line>> \o splitLines(Tail(text), <<>>)
    ELSE IF text[1] = "\r" /\ Len(text) >= 2 /\ text[2] = "\n"
    THEN <<line>> \o splitLines(Tail(Tail(text)), <<>>)
    ELSE splitLines(Tail(text), Append(line, text[1]))

RECURSIVE trimChars(_)
\* String.prototype.trim() on a sequence of characters
trimChars(l) ==
    IF l = <<>> THEN l
    ELSE IF isSpace(l[1]) THEN trimChars(Tail(l))
    ELSE IF isSpace(l[Len(l)]) THEN trimChars(SubSeq(l, 1, Len(l) - 1))
    ELSE l

\* l.toLowerCase().includes(w)
includesWord(l, w) == \E i \in 1..Len(l) : wordAt(l, i, w)

\* faulty variant: the header line is never dropped from the fallback count
parsePlayerCountKeepsHeader(resp) ==
    LET m == match(resp)
        lines == SelectSeq([i \in 1..Len(splitLines(resp, <<>>)) |->
                               trimChars(splitLines(resp, <<>>)[i])],
                           LAMBDA l : l # <<>>)
    IN  IF m # NO_MATCH THEN Number(m[1]) ELSE Len(lines)

parsePlayerCount(resp) ==
    LET m == match(resp)
        lines == SelectSeq([i \in 1..Len(splitLines(resp, <<>>)) |->
                               trimChars(splitLines(resp, <<>>)[i])],
                           LAMBDA l : l # <<>>)
    IN  IF m # NO_MATCH THEN Number(m[1])
        ELSE IF Len(lines) = 0 THEN 0
        ELSE IF includesWord(lines[1], word_player) THEN Len(lines) - 1
        ELSE Len(lines)

\* what the players command may answer
NobodyResp == <<"P", "l", "a", "y", "e", "r", "s", " ", "c", "o", "n", "n", "e", "c", "t", "e", "d", " ", "(", "0", ")", ":", "\n">>
OnePlayerResp == <<"P", "l", "a", "y", "e", "r", "s", " ", "c", "o", "n", "n", "e", "c", "t", "e", "d", " ", "(", "1", ")", ":", " ", "\n", "-", "b", "o", "b", "\n">>
PlayersResps == {<<>>, NobodyResp, OnePlayerResp}

\* the counts parsePlayerCount makes of them
PlayerCounts == {parsePlayerCount(r) : r \in PlayersResps}

(* ------------------------------- state -------------------------------- *)
VARIABLES
    variant,        \* which revision of the program runs
    POLL_MS,        \* Number(POLL_INTERVAL_MS ?? 10000)
    proc,           \* where the main flow stands: loading, login, fetch, firstPoll, armed, exited
    exitCode,       \* {} while running, {status} after process.exit(status)
    sigint,         \* none, destroying (SIGINT handler awaiting client.destroy())
    targetChannel,  \* NULL or "text"
    timer,          \* NULL, armed, cleared
    timerLeft,      \* ms until the interval fires next
    lastCount,      \* Last-Published Count
    topic,          \* the channel topic, <<>> while unset
    presence,       \* the bot's presence activity name, <<>> while unset
    cyc,            \* the pollOnce invocations
    started,        \* pollOnce invocations so far
    prevCall,       \* the latest updateChannelTopicIfChanged call: its count, whether it wrote
    topicFailed,    \* whether a setTopic call ever rejected
    split,          \* the splitMessage call of SplitSpec
    parse           \* the parsePlayerCount call of ParseSpec

vars == <<variant, POLL_MS, proc, exitCode, sigint, targetChannel, timer, timerLeft,
          lastCount, topic, presence, cyc, started, prevCall, topicFailed,
          split, parse>>

sched == <<proc, exitCode, timer, timerLeft>>
config == <<variant, POLL_MS, split, parse>>

\* An invocation holds its locals while they are in scope, and what it did so far.
IdleCycle ==
    [pc |-> "idle",          \* the await the invocation stands at
     rcon |-> NULL,          \* let rcon: null, open, ended
     count |-> 0,            \* the count handed to setPresence / the topic updater
     topicBefore |-> NEVER_SET, \* lastCount when the pending topic write was issued
     response |-> <<>>,      \* response of the primary command
     parts |-> <<>>,         \* the messages of the publish loop
     idx |-> 0,              \* messages of parts already sent
     sent |-> <<>>,          \* messages delivered to the channel
     sleepLeft |-> 0,        \* ms left of the cooldown sleep
     slept |-> 0,            \* ms slept in the cooldown
     outcome |-> "none",     \* none, quiet, notready, success, fault
     closes |-> 0]           \* calls of rcon.end()

\* the locals of the try block are out of scope in catch and finally
OutOfTry(cy) == [IdleCycle EXCEPT !.rcon = cy.rcon]

NoCall == [count |-> NEVER_SET, wrote |-> FALSE]

IdleSplit == [content |-> <<>>, maxLen |-> 1, chunks |-> <<>>, called |-> FALSE]

IdleParse == [lines |-> <<>>, sep |-> <<"\n">>, result |-> NEVER_SET, called |-> FALSE]

\* the state after the module's declarations, whatever the revision
Loaded ==
    /\ POLL_MS \in PollChoices
    /\ proc = "loading"
    /\ exitCode = {}
    /\ sigint = "none"
    /\ targetChannel = NULL
    /\ timer = NULL
    /\ timerLeft = 0
    /\ lastCount = NEVER_SET
    /\ topic = <<>>
    /\ presence = <<>>
    /\ cyc = [c \in Cycles |-> IdleCycle]
    /\ started = 0
    /\ prevCall = NoCall
    /\ topicFailed = FALSE
    /\ split = IdleSplit
    /\ parse = IdleParse

Init == variant \in Variants /\ Loaded

Alive == proc # "exited"
Active(c) == cyc[c].pc \notin {"idle", "done", "rejected"}

(* --------------------------- main flow -------------------------------- *)
\* process.exit(status): the invocations die with the process
Exit(status) ==
    /\ proc' = "exited"
    /\ exitCode' = {status}
    /\ cyc' = [c \in Cycles |-> IdleCycle]

\* pollOnce() is called: it runs to its first await, Rcon.connect
StartCycle(c) ==
    /\ cyc' = [cyc EXCEPT ![c] = [IdleCycle EXCEPT !.pc = "connect"]]
    /\ started' = c

\* the environment check at module load, then client.login
LoadEnv ==
    /\ proc = "loading"
    /\ \E ok \in BOOLEAN :
         IF ok THEN proc' = "login" /\ UNCHANGED <<exitCode, cyc>>
         ELSE Exit(1)
    /\ UNCHANGED <<config, sigint, targetChannel, timer, timerLeft, lastCount, topic,
                   presence, started, prevCall, topicFailed>>

\* client.once("ready"): the handler runs to client.channels.fetch
Ready ==
    /\ proc = "login"
    /\ proc' = "fetch"
    /\ UNCHANGED <<config, exitCode, sigint, targetChannel, timer, timerLeft, lastCount,
                   topic, presence, cyc, started, prevCall, topicFailed>>

\* what client.channels.fetch may settle with
FetchResults == {"text", "voice", "none", "error"}

\* faulty variant: whatever the fetch resolved with is taken as the channel
isAnyChannel(ch) == ch # "error"

\* ch && ch.type === ChannelType.GuildText (a rejected fetch throws before the test)
isTextChannel(ch) == ch = "text"

\* the ready handler after the fetch settled with ch: channel check, then the first pollOnce
FetchSettled(ch) ==
    /\ proc = "fetch"
    /\ IF isTextChannel(ch)
       THEN /\ targetChannel' = ch
            /\ proc' = "firstPoll"
            /\ StartCycle(1)
            /\ UNCHANGED exitCode
       ELSE /\ Exit(1)
            /\ UNCHANGED <<targetChannel, started>>
    /\ UNCHANGED <<config, sigint, timer, timerLeft, lastCount, topic, presence, prevCall, topicFailed>>

\* client.channels.fetch settled
FetchDone == \E ch \in FetchResults : FetchSettled(ch)

\* the setInterval callback
TimerFire ==
    /\ Alive
    /\ timer = "armed"
    /\ timerLeft = 0
    /\ started < MaxCycles
    /\ StartCycle(started + 1)
    /\ timerLeft' = POLL_MS
    /\ UNCHANGED <<config, proc, exitCode, sigint, targetChannel, timer, lastCount, topic,
                   presence, prevCall, topicFailed>>

\* the pending timers: the interval and the cooldown sleeps
Deadlines ==
    (IF timer = "armed" THEN {timerLeft} ELSE {})
        \cup {cyc[c].sleepLeft : c \in {x \in Cycles : cyc[x].pc = "sleep"}}

\* time passes up to the next timer that is due
Advance ==
    /\ Alive
    /\ Deadlines # {}
    /\ 0 \notin Deadlines
    /\ LET d == CHOOSE x \in Deadlines : \A y \in Deadlines : x <= y
       IN  /\ timerLeft' = IF timer = "armed" THEN timerLeft - d ELSE timerLeft
           /\ cyc' = [c \in Cycles |->
                        IF cyc[c].pc = "sleep"
                        THEN [cyc[c] EXCEPT !.sleepLeft = @ - d, !.slept = @ + d]
                        ELSE cyc[c]]
    /\ UNCHANGED <<config, proc, exitCode, sigint, targetChannel, timer, lastCount, topic,
                   presence, started, prevCall, topicFailed>>

\* process.on("SIGINT"): clearInterval, then await client.destroy()
Sigint ==
    /\ proc \notin {"loading", "exited"}
    /\ sigint = "none"
    /\ timer' = IF timer # NULL THEN "cleared" ELSE timer
    /\ sigint' = "destroying"
    /\ UNCHANGED <<config, proc, exitCode, targetChannel, timerLeft, lastCount, topic,
                   presence, cyc, started, prevCall, topicFailed>>

\* client.destroy() settled (a rejection is swallowed): process.exit(0)
DestroyDone ==
    /\ Alive
    /\ sigint = "destroying"
    /\ Exit(0)
    /\ UNCHANGED <<config, sigint, targetChannel, timer, timerLeft, lastCount, topic,
                   presence, started, prevCall, topicFailed>>

(* ------------------------ how pollOnce ends --------------------------- *)
\* pollOnce's promise resolves; the ready handler, awaiting the first one, arms the interval
Resolve(c, cy) ==
    /\ cyc' = [cyc EXCEPT ![c] = [IdleCycle EXCEPT !.pc = "done"]]
    /\ IF c = 1 /\ proc = "firstPoll"
       THEN proc' = "armed" /\ timer' = "armed" /\ timerLeft' = POLL_MS /\ UNCHANGED exitCode
       ELSE UNCHANGED sched

\* pollOnce's promise rejects: the ready handler exits, the interval callback logs
Reject(c, cy) ==
    IF c = 1 /\ proc = "firstPoll"
    THEN Exit(1) /\ UNCHANGED <<timer, timerLeft>>
    ELSE /\ cyc' = [cyc EXCEPT ![c] = [IdleCycle EXCEPT !.pc = "rejected"]]
         /\ UNCHANGED sched

\* faulty variant: finally closes the connection only when the try block ended normally
FinallyLeaksOnFault(c, cy) ==
    IF cy.rcon # NULL /\ cy.outcome # "fault"
    THEN /\ cyc' = [cyc EXCEPT ![c] = [cy EXCEPT !.pc = "end", !.closes = @ + 1]]
         /\ UNCHANGED sched
    ELSE Resolve(c, cy)

\* finally { try { await rcon?.end() } ... }
Finally(c, cy) ==
    IF cy.rcon # NULL
    THEN /\ cyc' = [cyc EXCEPT ![c] = [cy EXCEPT !.pc = "end", !.closes = @ + 1]]
         /\ UNCHANGED sched
    ELSE Resolve(c, cy)

\* faulty variant: the benign "connection closed" fault is logged and the cooldown skipped
CatchSkipsBenignCooldown(c, cy, e) ==
    LET cy1 == [OutOfTry(cy) EXCEPT !.outcome = "fault"]
    IN  IF variant = "notice" /\ targetChannel # NULL
        THEN cyc' = [cyc EXCEPT ![c] = [cy1 EXCEPT !.pc = "notice"]] /\ UNCHANGED sched
        ELSE IF variant = "notice" \/ isConnectionClosed(e)
        THEN Finally(c, cy1)
        ELSE /\ cyc' = [cyc EXCEPT ![c] = [cy1 EXCEPT !.pc = "sleep",
                                                      !.sleepLeft = COOLDOWN_MS]]
             /\ UNCHANGED sched

\* faulty variant: the cycle-level catch logs and rethrows
CatchRethrows(c, cy, e) == Reject(c, cy)

\* the cycle-level catch
Catch(c, cy, e) ==
    LET cy1 == [OutOfTry(cy) EXCEPT !.outcome = "fault"]
    IN  IF variant = "notice"
        THEN IF targetChannel # NULL
             THEN /\ cyc' = [cyc EXCEPT ![c] = [cy1 EXCEPT !.pc = "notice"]]
                  /\ UNCHANGED sched
             ELSE Finally(c, cy1)
        ELSE /\ cyc' = [cyc EXCEPT ![c] = [cy1 EXCEPT !.pc = "sleep",
                                                      !.sleepLeft = COOLDOWN_MS]]
             /\ UNCHANGED sched

\* rcon.send(COMMAND) is issued; the locals of the status step are out of scope
IssueCommand(c, cy) ==
    /\ cyc' = [cyc EXCEPT ![c] = [OutOfTry(cy) EXCEPT !.pc = "command"]]
    /\ UNCHANGED sched

(* --------------------- presence and channel topic --------------------- *)
\* faulty variant: the activity name always has the plural
presenceNameAlwaysPlural(count) == <<count, "survivors", "online">>

\* the activity name setPresence builds
presenceName(count) == <<count, IF count = 1 THEN "survivor" ELSE "survivors", "online">>

\* the topic updateChannelTopicIfChanged writes
topicText(count) == <<"Players online: ", count>>

\* faulty variant: a count of 0 is taken as already published
topicUnchangedOrZero(count) == count = lastCount \/ count = 0

\* faulty variant: the topic is written on every call
topicAlwaysChanged(count) == FALSE

\* if (count === lastCount) return
topicUnchanged(count) == count = lastCount

\* setPresence(count) is called: it awaits client.user.setPresence
CallSetPresence(cy, count, at) == [cy EXCEPT !.pc = at, !.count = count]

\* updateChannelTopicIfChanged(count), up to its await of setTopic or its return
updateChannelTopicIfChanged(c, cy, count) ==
    /\ prevCall' = [count |-> count,
                    wrote |-> targetChannel # NULL /\ ~topicUnchanged(count)]
    /\ IF targetChannel # NULL /\ ~topicUnchanged(count)
       THEN /\ lastCount' = count
            /\ cyc' = [cyc EXCEPT ![c] = [cy EXCEPT !.pc = "topic", !.count = count,
                                                    !.topicBefore = lastCount]]
            /\ UNCHANGED sched
       ELSE /\ UNCHANGED lastCount
            /\ IssueCommand(c, cy)

\* faulty variant: every fault of the status step is only logged
StatusCatchLogsOnly(c, cy, e) == IssueCommand(c, cy)

\* the catch of the status step
StatusCatch(c, cy, e) ==
    IF isConnectionClosed(e)
    THEN /\ cyc' = [cyc EXCEPT ![c] = CallSetPresence(cy, 0, "presence0")]
         /\ UNCHANGED sched
    ELSE IssueCommand(c, cy)

(* ----------------------------- pollOnce ------------------------------- *)
\* Rcon.connect rejected with e
ConnectFailed(c, e) ==
    /\ Alive
    /\ cyc[c].pc = "connect"
    /\ Catch(c, cyc[c], e)
    /\ UNCHANGED <<config, sigint, targetChannel, lastCount, topic, presence, started,
                   prevCall, topicFailed>>

\* Rcon.connect resolved: the status query of the presence revision, or the command
Connected(c) ==
    /\ Alive
    /\ cyc[c].pc = "connect"
    /\ LET cy == [cyc[c] EXCEPT !.rcon = "open"]
       IN  IF variant = "presence"
           THEN cyc' = [cyc EXCEPT ![c] = [cy EXCEPT !.pc = "players"]] /\ UNCHANGED sched
           ELSE IssueCommand(c, cy)
    /\ UNCHANGED <<config, sigint, targetChannel, lastCount, topic, presence, started,
                   prevCall, topicFailed>>

\* Rcon.connect settled
ConnectDone(c) ==
    \/ Connected(c)
    \/ \E e \in RconErrs : ConnectFailed(c, e)

\* rcon.send("players") rejected with e
PlayersFailed(c, e) ==
    /\ Alive
    /\ cyc[c].pc = "players"
    /\ StatusCatch(c, cyc[c], e)
    /\ UNCHANGED <<config, sigint, targetChannel, lastCount, topic, presence, started,
                   prevCall, topicFailed>>

\* rcon.send("players") resolved with a response that parses to n
PlayersAnswered(c, n) ==
    /\ Alive
    /\ cyc[c].pc = "players"
    /\ cyc' = [cyc EXCEPT ![c] = CallSetPresence(cyc[c], n, "presence")]
    /\ UNCHANGED <<config, sched, sigint, targetChannel, lastCount, topic, presence,
                   started, prevCall, topicFailed>>

\* rcon.send("players") settled
PlayersDone(c) ==
    \/ \E n \in PlayerCounts : PlayersAnswered(c, n)
    \/ \E e \in RconErrs : PlayersFailed(c, e)

\* setPresence(count) of the try block resolved; the topic updater is called
PresenceSet(c) ==
    /\ Alive
    /\ cyc[c].pc = "presence"
    /\ presence' = presenceName(cyc[c].count)
    /\ updateChannelTopicIfChanged(c, cyc[c], cyc[c].count)
    /\ UNCHANGED <<config, sigint, targetChannel, topic, started, topicFailed>>

\* setPresence(count) of the try block rejected with e
PresenceFailed(c, e) ==
    /\ Alive
    /\ cyc[c].pc = "presence"
    /\ StatusCatch(c, cyc[c], e)
    /\ UNCHANGED <<config, sigint, targetChannel, topic, started, presence, lastCount,
                   prevCall, topicFailed>>

\* setPresence(count) of the try block settled
PresenceDone(c) ==
    \/ PresenceSet(c)
    \/ \E e \in DiscordErrs : PresenceFailed(c, e)

\* setPresence(0) of the status step's catch settled
Presence0Done(c) ==
    /\ Alive
    /\ cyc[c].pc = "presence0"
    /\ \/ /\ presence' = presenceName(0)
          /\ updateChannelTopicIfChanged(c, cyc[c], 0)
       \/ /\ \E e \in DiscordErrs : Catch(c, cyc[c], e)
          /\ UNCHANGED <<presence, lastCount, prevCall>>
    /\ UNCHANGED <<config, sigint, targetChannel, topic, started, topicFailed>>

\* setTopic rejected: the rejection is caught and logged
TopicRejected(c) ==
    /\ Alive
    /\ cyc[c].pc = "topic"
    /\ IssueCommand(c, cyc[c])
    /\ topicFailed' = TRUE
    /\ UNCHANGED <<config, sigint, targetChannel, lastCount, topic, presence, started,
                   prevCall>>

\* setTopic settled
TopicDone(c) ==
    \/ /\ Alive
       /\ cyc[c].pc = "topic"
       /\ topic' = topicText(cyc[c].count)
       /\ IssueCommand(c, cyc[c])
       /\ UNCHANGED <<config, sigint, targetChannel, lastCount, presence, started,
                      prevCall, topicFailed>>
    \/ TopicRejected(c)

\* what the publish step sends: the chunks of the trimmed response, or the response
messagesOf(response) ==
    IF variant = "presence"
    THEN splitMessage(trim(response), DEFAULT_MAX_LEN)
    ELSE <<response>>

\* the publish loop, up to its next await of targetChannel.send or its end
Publish(c, cy) ==
    IF cy.idx < Len(cy.parts)
    THEN cyc' = [cyc EXCEPT ![c] = [cy EXCEPT !.pc = "send"]] /\ UNCHANGED sched
    ELSE Finally(c, [cy EXCEPT !.outcome = "success"])

\* faulty variant: an empty response is posted like any other
QuietPublishes(c, cy) == Publish(c, [cy EXCEPT !.parts = <<cy.response>>])

\* nothing to post: return
Quiet(c, cy) == Finally(c, [cy EXCEPT !.outcome = "quiet"])

\* rcon.send(COMMAND) rejected with e
CommandFailed(c, e) ==
    /\ Alive
    /\ cyc[c].pc = "command"
    /\ Catch(c, cyc[c], e)
    /\ UNCHANGED <<config, sigint, targetChannel, lastCount, topic, presence, started,
                   prevCall, topicFailed>>

\* rcon.send(COMMAND) resolved with response
CommandAnswered(c, response) ==
    /\ Alive
    /\ cyc[c].pc = "command"
    /\ LET cy == [cyc[c] EXCEPT !.response = response]
       IN  IF trim(response) = <<>>
           THEN Quiet(c, cy)
           ELSE IF targetChannel = NULL
           THEN Finally(c, [cy EXCEPT !.outcome = "notready"])
           ELSE IF stripWs(response) = <<>>
           THEN Quiet(c, cy)
           ELSE Publish(c, [cy EXCEPT !.parts = messagesOf(response)])
    /\ UNCHANGED <<config, sigint, targetChannel, lastCount, topic, presence, started,
                   prevCall, topicFailed>>

\* rcon.send(COMMAND) settled
CommandDone(c) ==
    \/ \E response \in Responses : CommandAnswered(c, response)
    \/ \E e \in RconErrs : CommandFailed(c, e)

\* targetChannel.send(part) rejected with e
SendFailed(c, e) ==
    /\ Alive
    /\ cyc[c].pc = "send"
    /\ Catch(c, cyc[c], e)
    /\ UNCHANGED <<config, sigint, targetChannel, lastCount, topic, presence, started,
                   prevCall, topicFailed>>

\* targetChannel.send(part) resolved: the message is in the channel, the loop goes on
Sent(c) ==
    /\ Alive
    /\ cyc[c].pc = "send"
    /\ Publish(c, [cyc[c] EXCEPT !.sent = Append(@, cyc[c].parts[cyc[c].idx + 1]),
                                 !.idx = @ + 1])
    /\ UNCHANGED <<config, sigint, targetChannel, lastCount, topic, presence, started,
                   prevCall, topicFailed>>

\* targetChannel.send(part) settled
SendDone(c) ==
    \/ Sent(c)
    \/ \E e \in DiscordErrs : SendFailed(c, e)

\* the error notice of the oldest revision settled; .catch(() => {}) swallows a rejection
NoticeDone(c) ==
    /\ Alive
    /\ cyc[c].pc = "notice"
    /\ Finally(c, cyc[c])
    /\ UNCHANGED <<config, sigint, targetChannel, lastCount, topic, presence, started,
                   prevCall, topicFailed>>

\* the cooldown sleep is over
SleepDone(c) ==
    /\ Alive
    /\ cyc[c].pc = "sleep"
    /\ cyc[c].sleepLeft = 0
    /\ Finally(c, cyc[c])
    /\ UNCHANGED <<config, sigint, targetChannel, lastCount, topic, presence, started,
                   prevCall, topicFailed>>

\* faulty variant: the rejection of rcon.end() leaves the finally block
CloseFailedRethrows(c, cy) == Reject(c, cy)

\* catch { /* ignore */ } around rcon.end()
CloseFailed(c, cy) == Resolve(c, cy)

\* rcon.end() settled
EndDone(c) ==
    /\ Alive
    /\ cyc[c].pc = "end"
    /\ \/ Resolve(c, [cyc[c] EXCEPT !.rcon = "ended"])
       \/ CloseFailed(c, cyc[c])
    /\ UNCHANGED <<config, sigint, targetChannel, lastCount, topic, presence, started,
                   prevCall, topicFailed>>

Next ==
    \/ LoadEnv
    \/ Ready
    \/ FetchDone
    \/ TimerFire
    \/ Advance
    \/ Sigint
    \/ DestroyDone
    \/ \E c \in Cycles : ConnectDone(c)
    \/ \E c \in Cycles : PlayersDone(c)
    \/ \E c \in Cycles : PresenceDone(c)
    \/ \E c \in Cycles : Presence0Done(c)
    \/ \E c \in Cycles : TopicDone(c)
    \/ \E c \in Cycles : CommandDone(c)
    \/ \E c \in Cycles : SendDone(c)
    \/ \E c \in Cycles : NoticeDone(c)
    \/ \E c \in Cycles : SleepDone(c)
    \/ \E c \in Cycles : EndDone(c)

Spec == Init /\ [][Next]_vars

(* the two revisions of src/index.ts, whose cycle-level catch sleeps *)
CycleStep(c) ==
    \/ ConnectDone(c)
    \/ PlayersDone(c)
    \/ PresenceDone(c)
    \/ Presence0Done(c)
    \/ TopicDone(c)
    \/ CommandDone(c)
    \/ SendDone(c)
    \/ SleepDone(c)
    \/ EndDone(c)

NextIndex ==
    \/ LoadEnv
    \/ Ready
    \/ FetchDone
    \/ TimerFire
    \/ Advance
    \/ Sigint
    \/ DestroyDone
    \/ \E c \in Cycles : CycleStep(c)

InitIndex == variant \in {"relay", "presence"} /\ Loaded

SpecIndex == InitIndex /\ [][NextIndex]_vars

(* the program under the event loop's guarantees: a timer that is due fires, time
   passes, and every awaited call of a cycle settles; nothing is assumed of SIGINT *)
Fairness ==
    /\ WF_vars(TimerFire)
    /\ WF_vars(Advance)
    /\ \A c \in Cycles : WF_vars(CycleStep(c) \/ NoticeDone(c))

LiveSpec == Init /\ [][Next]_vars /\ Fairness

(* splitMessage on its own: every content and maxLen within the bounds *)
Chars == {"a", "b"}
Contents == UNION {[1..n -> Chars] : n \in 0..MaxStrLen}

SplitInit ==
    /\ variant = "presence"
    /\ POLL_MS = DEFAULT_POLL_MS
    /\ proc = "loading"
    /\ exitCode = {}
    /\ sigint = "none"
    /\ targetChannel = NULL
    /\ timer = NULL
    /\ timerLeft = 0
    /\ lastCount = NEVER_SET
    /\ topic = <<>>
    /\ presence = <<>>
    /\ cyc = [c \in Cycles |-> IdleCycle]
    /\ started = 0
    /\ prevCall = NoCall
    /\ topicFailed = FALSE
    /\ parse = IdleParse
    /\ \E content \in Contents, maxLen \in 1..MaxChunk :
         split = [content |-> Str(content), maxLen |-> maxLen, chunks |-> <<>>,
                  called |-> FALSE]

CallSplitMessage ==
    /\ ~split.called
    /\ split' = [split EXCEPT !.chunks = splitMessage(split.content, split.maxLen),
                              !.called = TRUE]
    /\ UNCHANGED <<variant, POLL_MS, proc, exitCode, sigint, targetChannel, timer,
                   timerLeft, lastCount, topic, presence, cyc, started, prevCall,
                   topicFailed, parse>>

SplitNext == CallSplitMessage

SplitSpec == SplitInit /\ [][SplitNext]_vars

(* parsePlayerCount on its own: texts of up to MaxLines lines, each line one of
   the sample lines below, joined by \n or by \r\n.  A sample line is labelled
   with what it is: header is the N of a 'Player(s) connected (N)' header on the
   line (-1: none), literal tells that header is spelt 'Players connected (N)' up
   to letter case, blank that the line holds whitespace only, player that it
   contains 'player' in some letter case, tail that it ends with the word, head is
   the N of a line that begins with 'connected (N)' (-1: none). *)
SampleLines ==
    <<
      [chars |-> <<>>,
       header |-> -1, literal |-> FALSE, blank |-> TRUE, player |-> FALSE, tail |-> FALSE, head |-> -1],
      [chars |-> <<" ", "\t">>,
       header |-> -1, literal |-> FALSE, blank |-> TRUE, player |-> FALSE, tail |-> FALSE, head |-> -1],
      [chars |-> <<"-", "b", "o", "b">>,
       header |-> -1, literal |-> FALSE, blank |-> FALSE, player |-> FALSE, tail |-> FALSE, head |-> -1],
      [chars |-> <<" ", "a", "l", " ">>,
       header |-> -1, literal |-> FALSE, blank |-> FALSE, player |-> FALSE, tail |-> FALSE, head |-> -1],
      [chars |-> <<"P", "l", "a", "y", "e", "r", "s", " ", "c", "o", "n", "n", "e", "c", "t", "e", "d", " ", "(", "2", ")", ":">>,
       header |-> 2, literal |-> TRUE, blank |-> FALSE, player |-> TRUE, tail |-> FALSE, head |-> -1],
      [chars |-> <<"P", "L", "A", "Y", "E", "R", "S", " ", "C", "O", "N", "N", "E", "C", "T", "E", "D", " ", "(", "1", "0", ")">>,
       header |-> 10, literal |-> TRUE, blank |-> FALSE, player |-> TRUE, tail |-> FALSE, head |-> -1],
      [chars |-> <<"p", "l", "a", "y", "e", "r", " ", " ", "c", "o", "n", "n", "e", "c", "t", "e", "d", "(", "1", ")">>,
       header |-> 1, literal |-> FALSE, blank |-> FALSE, player |-> TRUE, tail |-> FALSE, head |-> -1],
      [chars |-> <<"P", "l", "a", "y", "e", "r", "s">>,
       header |-> -1, literal |-> FALSE, blank |-> FALSE, player |-> TRUE, tail |-> TRUE, head |-> -1],
      [chars |-> <<"c", "o", "n", "n", "e", "c", "t", "e", "d", " ", "(", "3", ")">>,
       header |-> -1, literal |-> FALSE, blank |-> FALSE, player |-> FALSE, tail |-> FALSE, head |-> 3],
      [chars |-> <<"P", "l", "a", "y", "e", "r", "s", " ", "o", "n", "l", "i", "n", "e", ":">>,
       header |-> -1, literal |-> FALSE, blank |-> FALSE, player |-> TRUE, tail |-> FALSE, head |-> -1],
      [chars |-> <<"P", "l", "a", "y", "e", "r", "s", " ", "c", "o", "n", "n", "e", "c", "t", "e", "d", " ", "(", ")">>,
       header |-> -1, literal |-> FALSE, blank |-> FALSE, player |-> TRUE, tail |-> FALSE, head |-> -1]
    >>

LineSeps == {<<"\n">>, <<"\r", "\n">>}

RECURSIVE textOf(_, _)
\* the response made of the sample lines, sep between two lines
textOf(lines, sep) ==
    IF lines = <<>> THEN <<>>
    ELSE IF Len(lines) = 1 THEN SampleLines[lines[1]].chars
    ELSE SampleLines[lines[1]].chars \o sep \o textOf(Tail(lines), sep)

ParseInit ==
    /\ variant = "presence"
    /\ POLL_MS = DEFAULT_POLL_MS
    /\ proc = "loading"
    /\ exitCode = {}
    /\ sigint = "none"
    /\ targetChannel = NULL
    /\ timer = NULL
    /\ timerLeft = 0
    /\ lastCount = NEVER_SET
    /\ topic = <<>>
    /\ presence = <<>>
    /\ cyc = [c \in Cycles |-> IdleCycle]
    /\ started = 0
    /\ prevCall = NoCall
    /\ topicFailed = FALSE
    /\ split = IdleSplit
    /\ \E n \in 0..MaxLines : \E lines \in [1..n -> 1..Len(SampleLines)] :
         \E sep \in LineSeps :
            parse = [lines |-> lines, sep |-> sep, result |-> NEVER_SET, called |-> FALSE]

CallParsePlayerCount ==
    /\ ~parse.called
    /\ parse' = [parse EXCEPT !.result = parsePlayerCount(textOf(parse.lines, parse.sep)),
                              !.called = TRUE]
    /\ UNCHANGED <<variant, POLL_MS, proc, exitCode, sigint, targetChannel, timer,
                   timerLeft, lastCount, topic, presence, cyc, started, prevCall,
                   topicFailed, split>>

ParseNext == CallParsePlayerCount

ParseSpec == ParseInit /\ [][ParseNext]_vars

(* ============================== claims ================================ *)

(* C1: the Scheduler never starts a pollOnce cycle while a previous one (its
   cooldown sleep included) is still running: at most one cycle is active. *)
C1_AtMostOneActiveCycle == Cardinality({c \in Cycles : Active(c)}) <= 1

(* C2: pollOnce always returns normally: whichever of connect, the status query,
   the presence update, the topic update, the primary query, a chunk publish and
   the close fail, no invocation's promise rejects (and so the ready handler never
   exits with status 1 after the first cycle was started). *)
C2_PollOnceReturnsNormally ==
    /\ \A c \in Cycles : cyc[c].pc # "rejected"
    /\ exitCode = {1} => started = 0

\* a timer-started cycle whose fault was handled is about to return
C2_FaultContained ==
    /\ proc = "armed"
    /\ \E c \in Cycles : cyc[c].pc = "end" /\ cyc[c].outcome = "fault"

(* C3: a cycle that opened an RCON connection returns only from the await of
   rcon.end(), which it called exactly once, whatever its outcome; once rcon.end()
   is awaited the cycle's next step is its return, also when the close fails: no
   cooldown, no rejection, the outcome as it was. *)
C3_ClosedOnceBeforeReturn ==
    [][\A c \in Cycles :
         /\ (cyc[c].pc # "done" /\ cyc'[c].pc = "done" /\ cyc[c].rcon # NULL)
                => (cyc[c].pc = "end" /\ cyc[c].closes = 1)
         /\ (cyc[c].pc = "end" /\ cyc'[c] # cyc[c])
                => (cyc'[c].pc = "done" \/ proc' = "exited")
         /\ (cyc[c].pc = "end" /\ cyc'[c].pc = "end") => cyc'[c].outcome = cyc[c].outcome
         /\ cyc'[c].closes <= 1]_vars

\* rcon.end() is awaited after a fault and its cooldown
C3_CloseAfterFault ==
    \E c \in Cycles :
        /\ cyc[c].pc = "end" /\ cyc[c].closes = 1 /\ cyc[c].rcon = "open"
        /\ cyc[c].outcome = "fault" /\ cyc[c].slept = COOLDOWN_MS

(* C4: when the topic write of updateChannelTopicIfChanged(count) fails, lastCount
   keeps the value it had before the call. *)
C4_FailedWriteKeepsLastCount ==
    [][\A c \in Cycles : TopicRejected(c) => lastCount' = cyc[c].topicBefore]_vars

(* C5: a topic write is issued only when the count differs from lastCount at the
   time of the call, whichever cycles' calls interleave; so a call with the count
   of the call before it writes nothing. *)
C5_WriteOnlyOnChange ==
    [][\A c \in Cycles :
         (cyc[c].pc # "topic" /\ cyc'[c].pc = "topic")
            => /\ cyc'[c].count # lastCount
               /\ cyc'[c].count # prevCall.count
               /\ prevCall' = [count |-> cyc'[c].count, wrote |-> TRUE]]_vars

\* the latest call repeated the count of the call before it and wrote nothing
C5_RepeatedCountSkipped ==
    /\ prevCall.count # NEVER_SET
    /\ ~prevCall.wrote
    /\ lastCount = prevCall.count

(* C6 (as amended): when the status query fails with the "connection closed" fault
   the cycle takes the count as 0: it calls setPresence(0) and, once that
   succeeded, the topic updater with 0; on any other fault of the query it only
   logs the fault and goes on to the primary command, presence and topic untouched. *)
C6_ClosedStatusFaultCountsZero ==
    [][\A c \in Cycles :
         /\ \A e \in RconErrs :
              PlayersFailed(c, e) =>
                 IF e = ERR_CLOSED
                 THEN cyc'[c].pc = "presence0" /\ cyc'[c].count = 0
                 ELSE cyc'[c].pc = "command" /\ presence' = presence /\ prevCall' = prevCall
         /\ (cyc[c].pc = "presence0" /\ cyc'[c].pc \in {"topic", "command"})
               => /\ presence' = presenceName(0)
                  /\ prevCall'.count = 0
                  /\ prevCall'.wrote => (cyc'[c].pc = "topic" /\ cyc'[c].count = 0)]_vars

\* setPresence(0) is awaited in the catch of the status step
C6_ZeroPresenceAfterClosed ==
    \E c \in Cycles : cyc[c].pc = "presence0" /\ cyc[c].count = 0 /\ cyc[c].rcon = "open"

(* C6 (as claimed): when the status query fails, for any kind of fault, the cycle
   takes the count as 0 and attempts the presence update with 0. *)
C6_AnyStatusFaultCountsZero ==
    [][\A c \in Cycles : \A e \in RconErrs :
         PlayersFailed(c, e) => (cyc'[c].pc = "presence0" /\ cyc'[c].count = 0)]_vars

\* only whitespace, or nothing
IsBlank(s) == \A i \in 1..Len(s) : s[i].ch \in WS

(* C7: a cycle whose primary query answers an empty or whitespace-only response
   sends nothing to the channel, ends quiet and goes to its finally block without
   a cooldown sleep; a quiet cycle only returns from there. *)
C7_BlankResponseIsQuiet ==
    [][\A c \in Cycles :
         /\ \A r \in Responses :
              (CommandAnswered(c, r) /\ IsBlank(r))
                 => /\ cyc'[c].pc = "end" /\ cyc'[c].outcome = "quiet"
                    /\ cyc'[c].sent = <<>> /\ cyc'[c].slept = 0
         /\ cyc[c].outcome = "quiet"
               => /\ cyc[c].pc = "end"
                  /\ cyc'[c] = cyc[c] \/ cyc'[c].pc = "done" \/ proc' = "exited"]_vars

\* a whitespace-only response ended the cycle quietly
C7_QuietAfterBlank ==
    \E c \in Cycles :
        /\ cyc[c].pc = "end" /\ cyc[c].outcome = "quiet"
        /\ cyc[c].response = BlankResp /\ cyc[c].sent = <<>>

(* C8: in the revisions of src/index.ts, whenever connect, the primary query or a
   chunk's send fails, with the "connection closed" fault or any other, the cycle
   enters the cooldown sleep of 60000 ms, leaves it only after 60000 ms, awaits no
   further send and never rejects. *)
C8_FaultCoolsDown ==
    [][\A c \in Cycles :
         /\ \A e \in RconErrs \cup DiscordErrs :
              (ConnectFailed(c, e) \/ CommandFailed(c, e) \/ SendFailed(c, e))
                 => /\ cyc'[c].pc = "sleep" /\ cyc'[c].outcome = "fault"
                    /\ cyc'[c].sleepLeft = COOLDOWN_MS /\ cyc'[c].slept = 0
         /\ (cyc[c].pc = "sleep" /\ cyc'[c].pc # "sleep")
               => \/ cyc[c].slept = COOLDOWN_MS /\ cyc'[c].pc \in {"end", "done"}
                  \/ proc' = "exited"
         /\ cyc[c].outcome = "fault" => cyc'[c].pc \notin {"send", "rejected"}]_vars

\* the cooldown of a faulted cycle has just elapsed
C8_CooldownElapsed ==
    \E c \in Cycles :
        /\ cyc[c].pc = "sleep" /\ cyc[c].outcome = "fault"
        /\ cyc[c].sleepLeft = 0 /\ cyc[c].slept = COOLDOWN_MS

(* C9: splitMessage(content, M), for a content of length L and M >= 1, returns
   ceil(L / M) chunks, none empty or longer than M, whose concatenation in order
   is content (no chunk for the empty string). *)
C9_SplitMessageChunks ==
    split.called =>
        LET L == length(split.content)
            M == split.maxLen
        IN  /\ Len(split.chunks) = (L + M - 1) \div M
            /\ \A i \in 1..Len(split.chunks) :
                  length(split.chunks[i]) >= 1 /\ length(split.chunks[i]) <= M
            /\ join(split.chunks) = split.content

\* a split into several chunks, the last one shorter than maxLen
C9_SplitWithRemainder ==
    /\ split.called
    /\ Len(split.chunks) >= 2
    /\ length(split.chunks[Len(split.chunks)]) < split.maxLen

(* C10: in a cycle with a non-empty response and no publish fault the messages
   sent to the channel are the chunks of the trimmed response, in order, each of
   at most 1900 characters. *)
C10_SentIsChunksOfTrimmed ==
    \A c \in Cycles :
        (cyc[c].pc = "end" /\ cyc[c].outcome = "success")
            => /\ join(cyc[c].sent) = trim(cyc[c].response)
               /\ \A i \in 1..Len(cyc[c].sent) : length(cyc[c].sent[i]) <= DEFAULT_MAX_LEN

(* C11: no poll cycle ever starts unless targetChannel holds a text channel: when
   the fetch fails or yields something else than a text channel the process exits
   with status 1, no pollOnce was called and no interval timer exists. *)
C11_NoPollWithoutChannel ==
    [][/\ \A ch \in FetchResults :
            (FetchSettled(ch) /\ ch # "text")
               => /\ proc' = "exited" /\ exitCode' = {1}
                  /\ started' = 0 /\ timer' = NULL /\ targetChannel' = NULL
       /\ started' > started => targetChannel' = "text"
       /\ timer' # NULL => targetChannel' = "text"]_vars

\* exit with status 1 from the ready handler (SIGINT is pending, so past the load)
C11_ExitOnBadChannel ==
    /\ proc = "exited" /\ exitCode = {1} /\ sigint = "destroying"
    /\ targetChannel = NULL /\ started = 0 /\ timer = NULL

(* C12: after SIGINT is received no new poll cycle is started, whenever the
   signal arrives. *)
C12_NoCycleAfterSigint ==
    [][sigint # "none" => started' = started]_vars

(* C13: a cycle never stops the schedule, whatever its outcome: unless SIGINT
   arrives, after cycle c was started (c below the bound of the model) cycle c + 1
   is eventually started. *)
C13_NextCycleEventuallyStarts ==
    \A c \in 1..(MaxCycles - 1) :
        (started = c) ~> (started > c \/ sigint # "none")

\* a cycle was started by the interval while an earlier, faulted one is still in its cooldown
C13_StartedAfterFault ==
    \E c \in Cycles :
        /\ c < started /\ sigint = "none"
        /\ cyc[c].outcome = "fault" /\ cyc[c].pc = "sleep"

\* the sample lines of the response parsed
parsedLine(i) == SampleLines[parse.lines[i]]

\* the N of the header that starts on line i, on the line or running over the
\* line break (and blank lines) into a line that begins with 'connected (N)'; -1: none
headerFrom(i) ==
    IF parsedLine(i).header >= 0 THEN parsedLine(i).header
    ELSE IF parsedLine(i).tail
              /\ \E j \in (i + 1)..Len(parse.lines) :
                    /\ parsedLine(j).head >= 0
                    /\ \A k \in (i + 1)..(j - 1) : parsedLine(k).blank
    THEN parsedLine(CHOOSE j \in (i + 1)..Len(parse.lines) :
                        /\ parsedLine(j).head >= 0
                        /\ \A k \in (i + 1)..(j - 1) : parsedLine(k).blank).head
    ELSE -1

\* the N of the first header of the text, -1 when it has none
firstHeader ==
    LET at == {i \in 1..Len(parse.lines) : headerFrom(i) >= 0}
    IN  IF at = {} THEN -1 ELSE headerFrom(CHOOSE i \in at : \A j \in at : i <= j)

\* the N of the first header spelt 'Players connected (N)', -1 when there is none
firstLiteralHeader ==
    LET at == {i \in 1..Len(parse.lines) : parsedLine(i).literal}
    IN  IF at = {} THEN -1 ELSE parsedLine(CHOOSE i \in at : \A j \in at : i <= j).header

\* the non-empty lines, less the first of them when it contains 'player'
fallbackCount ==
    LET full == {i \in 1..Len(parse.lines) : ~parsedLine(i).blank}
    IN  IF full = {} THEN 0
        ELSE IF parsedLine(CHOOSE i \in full : \A j \in full : i <= j).player
        THEN Cardinality(full) - 1
        ELSE Cardinality(full)

(* C14 (as amended): parsePlayerCount returns the N of the first match of
   'Player' or 'Players', whitespace of any kind (line breaks included),
   'connected', optional whitespace and '(N)', in any letter case; when the text
   has no such match it returns the number of non-empty trimmed lines, less the
   first of them when it contains 'player'; the result is never negative and is 0
   for an empty or whitespace-only text. *)
C14_ParsePlayerCount ==
    parse.called =>
        /\ parse.result = IF firstHeader >= 0 THEN firstHeader ELSE fallbackCount
        /\ parse.result >= 0
        /\ (\A i \in 1..Len(parse.lines) : parsedLine(i).blank) => parse.result = 0

\* a header that is not spelt 'Players connected (N)' gave the count
C14_LenientHeaderParsed ==
    /\ parse.called
    /\ firstLiteralHeader = -1
    /\ firstHeader >= 0
    /\ parse.result = firstHeader
    /\ Len(parse.lines) >= 2

(* C14 (as claimed): parsePlayerCount returns N for a text containing the header
   'Players connected (N)' in any letter case, and otherwise the number of
   non-empty trimmed lines, less the first when it contains 'player'. *)
C14_LiteralHeaderOrLines ==
    parse.called =>
        parse.result = IF firstLiteralHeader >= 0 THEN firstLiteralHeader
                       ELSE fallbackCount

\* the awaits of the status step
StatusStep == {"players", "presence", "presence0", "topic"}

(* C15: a failure in the status step (the players query, or the presence or topic
   update that follows it) never aborts the cycle: the cycle leaves the status
   step only by issuing the primary command on its open connection. *)
C15_StatusFailureKeepsCycle ==
    [][\A c \in Cycles :
         (cyc[c].pc \in StatusStep /\ cyc'[c] # cyc[c])
            => \/ cyc'[c].pc \in StatusStep \cup {"command"} /\ cyc'[c].rcon = "open"
               \/ proc' = "exited"]_vars

(* C16: every cycle whose players query gives a count calls setPresence with it,
   and the presence set is '<count> survivor online' for count 1 and
   '<count> survivors online' otherwise, whether or not the count equals
   lastCount; with an unchanged count only the topic write is left out. *)
C16_PresenceSetEveryCycle ==
    [][\A c \in Cycles :
         /\ \A n \in PlayerCounts :
              PlayersAnswered(c, n) => (cyc'[c].pc = "presence" /\ cyc'[c].count = n)
         /\ PresenceSet(c)
               => /\ presence' = <<cyc[c].count,
                                   IF cyc[c].count = 1 THEN "survivor" ELSE "survivors",
                                   "online">>
                  /\ cyc[c].count = lastCount
                        => (cyc'[c].pc = "command" /\ topic' = topic /\ lastCount' = lastCount)]_vars

\* the presence was set for one player although the topic write was left out
C16_PresenceSetTopicSkipped ==
    /\ presence = <<1, "survivor", "online">>
    /\ lastCount = 1
    /\ prevCall = [count |-> 1, wrote |-> FALSE]
    /\ \E c \in Cycles : cyc[c].pc = "command"

(* C17: in the presence revision, whenever a cycle hits the benign 'connection
   closed' fault, at connect, at the status query or at the primary query, the
   count is treated as 0: setPresence(0) is called (and the cooldown follows). *)
C17_ClosedFaultCountsZero ==
    [][\A c \in Cycles :
         (/\ variant = "presence"
          /\ \/ ConnectFailed(c, ERR_CLOSED)
             \/ PlayersFailed(c, ERR_CLOSED)
             \/ CommandFailed(c, ERR_CLOSED))
            => (cyc'[c].pc = "presence0" /\ cyc'[c].count = 0)]_vars

(* C18: at most one RCON session is open at any time. *)
C18_AtMostOneSession ==
    Cardinality({c \in Cycles : cyc[c].rcon = "open"}) <= 1

(* C19 (as amended): lastCount starts at -1 and every count is non-negative, so
   the first call of the topic updater (count 0 included) always issues a topic
   write, and lastCount never returns to -1 afterwards. *)
C19_FirstCallWritesTopic ==
    [][/\ (lastCount = NEVER_SET /\ prevCall' # prevCall)
            => /\ prevCall'.wrote
               /\ prevCall'.count >= 0
               /\ lastCount' = prevCall'.count
               /\ \E c \in Cycles :
                     /\ cyc[c].pc # "topic" /\ cyc'[c].pc = "topic"
                     /\ cyc'[c].count = lastCount'
       /\ lastCount # NEVER_SET => lastCount' # NEVER_SET]_vars

\* the first call, with count 0, has its topic write in flight
C19_FirstWriteForZero ==
    \E c \in Cycles :
        /\ cyc[c].pc = "topic" /\ cyc[c].count = 0
        /\ cyc[c].topicBefore = NEVER_SET /\ lastCount = 0

(* C19 (as claimed): the first cycle that computes a count always issues a topic
   write: while lastCount is -1, a cycle that holds a count goes on to the topic
   write once its presence call settled. *)
C19_FirstCountWritesTopic ==
    [][\A c \in Cycles :
         (/\ lastCount = NEVER_SET
          /\ cyc[c].pc \in {"presence", "presence0"}
          /\ cyc'[c].pc \notin {"presence", "presence0"})
            => (cyc'[c].pc = "topic" \/ proc' = "exited")]_vars

(* C20: in every state of the running process where no topic write is in flight
   and none ever failed, the channel topic is 'Players online: <lastCount>', or
   still unset while lastCount is -1. *)
C20_TopicMatchesLastCount ==
    (/\ Alive
     /\ ~topicFailed
     /\ \A c \in Cycles : cyc[c].pc # "topic")
        => topic = IF lastCount = NEVER_SET THEN <<>> ELSE <<"Players online: ", lastCount>>

====
